---- MODULE Spec2Model ----
(***************************************************************************)
(* Model of the sched storage engine (src/src/storage.rs) and of the       *)
(* scripting facade that serialises it (src/src/script/sched.rs).          *)
(*                                                                         *)
(* Strings are sequences of one-character strings, so that                 *)
(* key.contains('.'), format!("attrs.{}", key), i32::to_string and the     *)
(* matching of a pattern against a Log type are computed, not assumed.     *)
(* A BSON value is [t |-> "Int32" | "String", v |-> ...]; an optional      *)
(* field of a stored document is <<>> when absent and <<x>> when present.  *)
(* Attribute keys drawn by the model are non-empty: what the store does    *)
(* with an empty field name is outside this model.  The store is always    *)
(* reachable, and the counters stay far below the end of the i32 range.    *)
(***************************************************************************)
EXTENDS Integers, Sequences, FiniteSets

VARIABLES ids, logs, objs, handlers, fired, crashed, now, last, first_set, lock, th, shell

vars == <<ids, logs, objs, handlers, fired, crashed, now, shell, last, first_set, lock, th>>

(***************************************************************************)
(* Bounds of the model.                                                    *)
(***************************************************************************)
MaxLogs == 3
MaxObjs == 1
MaxHandlers == 2
MaxTime == 1
MaxLines == 2

(***************************************************************************)
(* String literals of the source.                                          *)
(***************************************************************************)
DOT == "."
S_attrs_dot == <<"a", "t", "t", "r", "s", ".">>
S_id == <<"i", "d">>
S_attr == <<"a", "t", "t", "r">>
S_key == <<"k", "e", "y">>
S_old == <<"o", "l", "d">>
S_new == <<"n", "e", "w">>
S_dep == <<"d", "e", "p">>
S_sub == <<"s", "u", "b">>
S_ref == <<"r", "e", "f">>
S_desc == <<"d", "e", "s", "c">>
T_log_set_attr == <<"l", "o", "g", ".", "s", "e", "t", "_", "a", "t", "t", "r">>
T_obj_create == <<"o", "b", "j", ".", "c", "r", "e", "a", "t", "e">>
T_obj_set_desc == <<"o", "b", "j", ".", "s", "e", "t", "_", "d", "e", "s", "c">>
T_obj_add_dep == <<"o", "b", "j", ".", "a", "d", "d", "_", "d", "e", "p">>
T_obj_add_sub == <<"o", "b", "j", ".", "a", "d", "d", "_", "s", "u", "b">>
T_obj_add_ref == <<"o", "b", "j", ".", "a", "d", "d", "_", "r", "e", "f">>
T_obj_set_attr == <<"o", "b", "j", ".", "s", "e", "t", "_", "a", "t", "t", "r">>
T_obj_del_dep == <<"o", "b", "j", ".", "d", "e", "l", "_", "d", "e", "p">>
T_obj_del_sub == <<"o", "b", "j", ".", "d", "e", "l", "_", "s", "u", "b">>
T_obj_del_ref == <<"o", "b", "j", ".", "d", "e", "l", "_", "r", "e", "f">>
T_obj_del_attr == <<"o", "b", "j", ".", "d", "e", "l", "_", "a", "t", "t", "r">>

(***************************************************************************)
(* Values of the bson crate and of the standard library.                   *)
(***************************************************************************)
Int32(i) == [t |-> "Int32", v |-> i]
BsonString(s) == [t |-> "String", v |-> s]

EmptyDoc == [k \in {} |-> Int32(0)]

\* doc! { k1: v1, ... }: a later pair with the same key replaces the earlier.
Put(f, k, v) == [x \in (DOMAIN f) \cup {k} |-> IF x = k THEN v ELSE f[x]]

Remove(f, k) == [x \in (DOMAIN f) \ {k} |-> f[x]]

\* str::starts_with(char) in the place of contains
Contains_first(s, c) == Len(s) > 0 /\ s[1] = c

\* str::contains(char)
Contains(s, c) == \E i \in 1..Len(s) : s[i] = c

Digit(d) == <<"0", "1", "2", "3", "4", "5", "6", "7", "8", "9">>[d + 1]

RECURSIVE Digits(_)
Digits(n) == IF n < 10 THEN <<Digit(n)>> ELSE Digits(n \div 10) \o <<Digit(n % 10)>>

\* i32::to_string
I32ToString(i) == IF i < 0 THEN <<"-">> \o Digits(0 - i) ELSE Digits(i)

\* format!("attrs.{}", key)
AttrPath(key) == S_attrs_dot \o key

(***************************************************************************)
(* Results of the operations: Ok(val), Err(Error::kind(arg)), or a panic   *)
(* (an unwrap of None or of an Err), which unwinds out of the operation.   *)
(***************************************************************************)
Ok(x) == [tag |-> "Ok", val |-> <<x>>]
Err(kind, arg) == [tag |-> "Err", err |-> kind, arg |-> <<arg>>]
Panicked == [tag |-> "Panic"]

Out(s, r) == [s |-> s, res |-> r]
Panic(s) == Out([s EXCEPT !.crashed = TRUE], Panicked)

(***************************************************************************)
(* Event dispatcher (crate::event::EventHandlers).  A registration is      *)
(* [pat |-> pattern, f |-> handler]; a pattern is a regular expression of  *)
(* literal characters, '.' and a postfix '*', searched for anywhere in the *)
(* Log type.                                                               *)
(***************************************************************************)
Tail2(s) == SubSeq(s, 3, Len(s))

RECURSIVE MatchHere(_, _)
MatchHere(re, text) ==
    IF Len(re) = 0 THEN TRUE
    ELSE IF Len(re) >= 2 /\ re[2] = "*"
         THEN \E k \in 0..Len(text) :
                 /\ \A i \in 1..k : re[1] = DOT \/ re[1] = text[i]
                 /\ MatchHere(Tail2(re), SubSeq(text, k + 1, Len(text)))
         ELSE /\ Len(text) > 0
              /\ (re[1] = DOT \/ re[1] = text[1])
              /\ MatchHere(Tail(re), Tail(text))

IsMatch(re, text) == \E i \in 0..Len(text) : MatchHere(re, SubSeq(text, i + 1, Len(text)))

\* a '*' needs something to repeat
Compiles(pat) == \A i \in 1..Len(pat) : pat[i] = "*" => (i > 1 /\ pat[i - 1] # "*")

EventHandlers_new == <<>>

EventHandlers_add(hs, pat, f) ==
    IF Compiles(pat)
    THEN [hs |-> Append(hs, [pat |-> pat, f |-> f]), res |-> Ok(0)]
    ELSE [hs |-> hs, res |-> Err("Regex", pat)]

\* the handler functions a script can register: "f" and "g" return, H_fail
\* raises an error, H_mut calls log.set_attr on the Log it is invoked with
H_fail == "x"
H_mut == "m"
HandlerFails(f) == f = H_fail

\* the invocations made for one Log, in registration order; the failure of
\* a handler ends the dispatch
RECURSIVE EventHandlers_handle(_, _)
EventHandlers_handle(hs, log) ==
    IF hs = <<>> THEN <<>>
    ELSE IF IsMatch(Head(hs).pat, log.typ)
         THEN <<[f |-> Head(hs).f, log |-> log]>>
              \o (IF HandlerFails(Head(hs).f) THEN <<>> ELSE EventHandlers_handle(Tail(hs), log))
         ELSE EventHandlers_handle(Tail(hs), log)

\* the dispatch has ended in the failure of a handler
HandleFailed(inv) == inv # <<>> /\ HandlerFails(inv[Len(inv)].f)

(***************************************************************************)
(* Storage.  s is the Storage together with the collections behind it:     *)
(* s.ids, s.logs, s.objs model the persisted documents, s.handlers the     *)
(* handlers field, s.fired the handler invocations made so far by the      *)
(* running operation, s.now the reading of Utc::now().                     *)
(***************************************************************************)
\* add_lua keeping one handler per pattern: a registration under a pattern
\* registered before takes the place of the earlier one
Storage_add_lua_replace(s, pat, f) ==
    IF \E i \in 1..Len(s.handlers) : s.handlers[i].pat = pat
    THEN Out([s EXCEPT !.handlers =
                 [i \in 1..Len(@) |-> IF @[i].pat = pat THEN [pat |-> pat, f |-> f] ELSE @[i]]],
             Ok(0))
    ELSE LET a == EventHandlers_add(s.handlers, pat, f)
         IN  Out([s EXCEPT !.handlers = a.hs], a.res)

Storage_add_lua(s, pat, f) ==
    LET r == EventHandlers_add(s.handlers, pat, f)
    IN  Out([s EXCEPT !.handlers = r.hs], r.res)

\* the Log value built from the stored document
LogOf(d) ==
    [typ |-> d.type,
     time |-> d.time,
     attrs |-> IF d.attrs = <<>> THEN EmptyDoc
               ELSE [k \in DOMAIN d.attrs[1] |->
                        IF d.attrs[1][k].t = "Int32"
                        THEN I32ToString(d.attrs[1][k].v)
                        ELSE d.attrs[1][k].v]]

get_log(s, id) ==
    IF id \in DOMAIN s.logs
    THEN Out(s, Ok(LogOf(s.logs[id])))
    ELSE Out(s, Err("InvalidLogID", id))

\* the end of create_log: self.handlers.handle(&log); Ok(id).  The failure
\* of a handler unwinds out of the operation, everything written so far
\* stays written.
Dispatch(s, log, id) ==
    LET inv == EventHandlers_handle(s.handlers, log)
        s1  == [s EXCEPT !.fired = @ \o inv]
    IN  IF HandleFailed(inv) THEN Panic(s1) ELSE Out(s1, Ok(id))

\* create_log with the sign of the $inc slipped
create_log_dec(s, typ, attrs) ==
    LET id == s.ids.logs_id
        s1 == [s EXCEPT !.ids.logs_id = @ - 1]
        d  == [type |-> typ, time |-> s.now,
               attrs |-> IF Cardinality(DOMAIN attrs) > 0 THEN <<attrs>> ELSE <<>>]
    IN  IF id \in DOMAIN s1.logs
        THEN Panic(s1)
        ELSE LET s2 == [s1 EXCEPT !.logs = Put(@, id, d)]
                 g  == get_log(s2, id)
             IN  IF g.res.tag # "Ok" THEN g ELSE Dispatch(s2, g.res.val[1], id)

\* create_log returning without the call of handle
create_log_nodispatch(s, typ, attrs) ==
    LET id == s.ids.logs_id
        s1 == [s EXCEPT !.ids.logs_id = @ + 1]
        d  == [type |-> typ, time |-> s.now,
               attrs |-> IF Cardinality(DOMAIN attrs) > 0 THEN <<attrs>> ELSE <<>>]
    IN  IF id \in DOMAIN s1.logs
        THEN Panic(s1)
        ELSE LET s2 == [s1 EXCEPT !.logs = Put(@, id, d)]
                 g  == get_log(s2, id)
             IN  IF g.res.tag # "Ok" THEN g ELSE Out(s2, Ok(id))

\* create_log with ReturnDocument::After: the id is the incremented counter
create_log_after(s, typ, attrs) ==
    LET id == s.ids.logs_id + 1
        s1 == [s EXCEPT !.ids.logs_id = @ + 1]
        d  == [type |-> typ, time |-> s.now,
               attrs |-> IF Cardinality(DOMAIN attrs) > 0 THEN <<attrs>> ELSE <<>>]
    IN  IF id \in DOMAIN s1.logs
        THEN Panic(s1)
        ELSE LET s2 == [s1 EXCEPT !.logs = Put(@, id, d)]
                 g  == get_log(s2, id)
             IN  IF g.res.tag # "Ok" THEN g ELSE Dispatch(s2, g.res.val[1], id)

\* create_log that logs the creation of its Log in a second Log
create_log_audited(s, typ, attrs) ==
    LET o == create_log_nodispatch(s, typ, attrs)
        a == create_log_nodispatch(o.s, <<"l", "o", "g", ".", "c", "r", "e", "a", "t", "e">>,
                                   Put(EmptyDoc, S_id, Int32(o.res.val[1])))
    IN  IF o.res.tag # "Ok" THEN o
        ELSE IF a.res.tag # "Ok" THEN a
        ELSE Out(a.s, o.res)

create_log(s, typ, attrs) ==
    LET id == s.ids.logs_id
        s1 == [s EXCEPT !.ids.logs_id = @ + 1]
        d  == [type |-> typ, time |-> s.now,
               attrs |-> IF Cardinality(DOMAIN attrs) > 0 THEN <<attrs>> ELSE <<>>]
    IN  IF id \in DOMAIN s1.logs
        THEN Panic(s1)
        ELSE LET s2 == [s1 EXCEPT !.logs = Put(@, id, d)]
                 g  == get_log(s2, id)
             IN  IF g.res.tag # "Ok" THEN g ELSE Dispatch(s2, g.res.val[1], id)

\* the `?` after an inner create_log: an error or a panic ends the operation
Then(o, r) == IF o.res.tag = "Ok" THEN Out(o.s, r) ELSE o

\* log_set_attr without the $exists filter: the $set always applies
log_set_attr_overwrite(s, id, key, val) ==
    IF Contains(key, DOT)
    THEN Out(s, Err("InvalidKey", key))
    ELSE LET old == IF s.logs[id].attrs = <<>> THEN EmptyDoc ELSE s.logs[id].attrs[1]
             s1  == IF id \in DOMAIN s.logs
                    THEN [s EXCEPT !.logs[id].attrs = <<Put(old, key, BsonString(val))>>]
                    ELSE s
         IN  Then(create_log(s1, T_log_set_attr,
                             Put(Put(EmptyDoc, S_id, Int32(id)), S_attr, BsonString(AttrPath(key)))),
                  Ok(0))

log_set_attr(s, id, key, val) ==
    IF Contains(key, DOT)
    THEN Out(s, Err("InvalidKey", key))
    ELSE LET hit == /\ id \in DOMAIN s.logs
                    /\ (s.logs[id].attrs = <<>> \/ key \notin DOMAIN s.logs[id].attrs[1])
             old == IF s.logs[id].attrs = <<>> THEN EmptyDoc ELSE s.logs[id].attrs[1]
             s1  == IF hit
                    THEN [s EXCEPT !.logs[id].attrs = <<Put(old, key, BsonString(val))>>]
                    ELSE s
         IN  Then(create_log(s1, T_log_set_attr,
                             Put(Put(EmptyDoc, S_id, Int32(id)), S_attr, BsonString(AttrPath(key)))),
                  Ok(0))

(***************************************************************************)
(* Update operators of the store on one field of a document.               *)
(***************************************************************************)
InSeq(a, x) == \E i \in 1..Len(a) : a[i] = x

\* $push in the place of $addToSet
AddToSet_push(f, x) == IF f = <<>> THEN << <<x>> >> ELSE <<Append(f[1], x)>>

\* $addToSet: creates the array when the field is absent
AddToSet(f, x) ==
    IF f = <<>> THEN << <<x>> >>
    ELSE IF InSeq(f[1], x) THEN f ELSE <<Append(f[1], x)>>

\* $pull: removes every occurrence, leaves an absent field absent
Pull(f, x) ==
    IF f = <<>> THEN <<>>
    ELSE <<SelectSeq(f[1], LAMBDA y : y # x)>>

\* $set of "attrs.<key>": creates the embedded document when absent
SetIn(f, key, v) == IF f = <<>> THEN <<Put(EmptyDoc, key, v)>> ELSE <<Put(f[1], key, v)>>

\* $unset of "attrs.<key>": an emptied embedded document stays, empty
UnsetIn(f, key) == IF f = <<>> THEN <<>> ELSE <<Remove(f[1], key)>>

\* the document of create_obj with the two strings in each other's field
NewObjDoc_swapped(name, typ) ==
    [name |-> typ, type |-> name, desc |-> <<>>,
     deps |-> <<>>, subs |-> <<>>, refs |-> <<>>, attrs |-> <<>>]

NewObjDoc(name, typ) ==
    [name |-> name, type |-> typ, desc |-> <<>>,
     deps |-> <<>>, subs |-> <<>>, refs |-> <<>>, attrs |-> <<>>]

create_obj(s, name, typ) ==
    LET id == s.ids.objs_id
        s1 == [s EXCEPT !.ids.objs_id = @ + 1]
    IN  IF id \in DOMAIN s1.objs
        THEN Panic(s1)
        ELSE LET s2 == [s1 EXCEPT !.objs = Put(@, id, NewObjDoc(name, typ))]
             IN  Then(create_log(s2, T_obj_create, Put(EmptyDoc, S_id, Int32(id))), Ok(id))

obj_set_desc(s, id, desc) ==
    IF id \notin DOMAIN s.objs
    THEN Panic(s)
    ELSE LET old == s.objs[id].desc
             s1  == [s EXCEPT !.objs[id].desc = <<desc>>]
             base == Put(Put(EmptyDoc, S_id, Int32(id)), S_new, BsonString(desc))
             attrs == IF old # <<>> THEN Put(base, S_old, BsonString(old[1])) ELSE base
         IN  Then(create_log(s1, T_obj_set_desc, attrs), Ok(0))

\* obj_add_dep with the upsert option: an id with no Object gets a document
obj_add_dep_upsert(s, id, dep) ==
    LET s1 == IF id \in DOMAIN s.objs
              THEN [s EXCEPT !.objs[id].deps = AddToSet(@, dep)]
              ELSE [s EXCEPT !.objs = Put(@, id, [NewObjDoc(<<>>, <<>>) EXCEPT !.deps = << <<dep>> >>])]
    IN  Then(create_log(s1, T_obj_add_dep,
                        Put(Put(EmptyDoc, S_id, Int32(id)), S_dep, Int32(dep))), Ok(0))

obj_add_dep(s, id, dep) ==
    LET s1 == IF id \in DOMAIN s.objs
              THEN [s EXCEPT !.objs[id].deps = AddToSet(@, dep)] ELSE s
    IN  Then(create_log(s1, T_obj_add_dep,
                        Put(Put(EmptyDoc, S_id, Int32(id)), S_dep, Int32(dep))), Ok(0))

obj_add_sub(s, id, sub) ==
    LET s1 == IF id \in DOMAIN s.objs
              THEN [s EXCEPT !.objs[id].subs = AddToSet(@, sub)] ELSE s
    IN  Then(create_log(s1, T_obj_add_sub,
                        Put(Put(EmptyDoc, S_sub, Int32(sub)), S_id, Int32(id))), Ok(0))

obj_add_ref(s, id, rf) ==
    LET s1 == IF id \in DOMAIN s.objs
              THEN [s EXCEPT !.objs[id].refs = AddToSet(@, rf)] ELSE s
    IN  Then(create_log(s1, T_obj_add_ref,
                        Put(Put(EmptyDoc, S_ref, Int32(rf)), S_id, Int32(id))), Ok(0))

obj_set_attr(s, id, key, val) ==
    IF Contains(key, DOT)
    THEN Out(s, Err("InvalidKey", key))
    ELSE IF id \notin DOMAIN s.objs
    THEN Panic(s)
    ELSE LET old == s.objs[id].attrs
             s1  == [s EXCEPT !.objs[id].attrs = SetIn(@, key, BsonString(val))]
             base == Put(Put(Put(EmptyDoc, S_key, BsonString(key)), S_id, Int32(id)),
                         S_new, BsonString(val))
         IN  IF old = <<>>
             THEN Then(create_log(s1, T_obj_set_attr, base), Ok(0))
             ELSE IF key \notin DOMAIN old[1]
             THEN Panic(s1)
             ELSE Then(create_log(s1, T_obj_set_attr, Put(base, S_old, old[1][key])), Ok(0))

obj_del_dep(s, id, dep) ==
    LET s1 == IF id \in DOMAIN s.objs
              THEN [s EXCEPT !.objs[id].deps = Pull(@, dep)] ELSE s
    IN  Then(create_log(s1, T_obj_del_dep,
                        Put(Put(EmptyDoc, S_dep, Int32(dep)), S_id, Int32(id))), Ok(0))

obj_del_sub(s, id, sub) ==
    LET s1 == IF id \in DOMAIN s.objs
              THEN [s EXCEPT !.objs[id].subs = Pull(@, sub)] ELSE s
    IN  Then(create_log(s1, T_obj_del_sub,
                        Put(Put(EmptyDoc, S_sub, Int32(sub)), S_id, Int32(id))), Ok(0))

obj_del_ref(s, id, rf) ==
    LET s1 == IF id \in DOMAIN s.objs
              THEN [s EXCEPT !.objs[id].refs = Pull(@, rf)] ELSE s
    IN  Then(create_log(s1, T_obj_del_ref,
                        Put(Put(EmptyDoc, S_ref, Int32(rf)), S_id, Int32(id))), Ok(0))

obj_del_attr(s, id, key) ==
    IF Contains(key, DOT)
    THEN Out(s, Err("InvalidKey", key))
    ELSE IF id \notin DOMAIN s.objs
    THEN Panic(s)
    ELSE LET old == s.objs[id].attrs
             s1  == [s EXCEPT !.objs[id].attrs = UnsetIn(@, key)]
         IN  IF old = <<>>
             THEN Out(s1, Ok(0))
             ELSE IF key \notin DOMAIN old[1]
             THEN Panic(s1)
             ELSE Then(create_log(s1, T_obj_del_attr,
                                  Put(Put(Put(EmptyDoc, S_id, Int32(id)), S_key, BsonString(key)),
                                      S_old, old[1][key])), Ok(0))

\* from_bson into Object: an absent desc is None, absent arrays and attrs are empty
ObjectOf(d) ==
    [name |-> d.name,
     typ |-> d.type,
     desc |-> d.desc,
     deps |-> IF d.deps = <<>> THEN <<>> ELSE d.deps[1],
     subs |-> IF d.subs = <<>> THEN <<>> ELSE d.subs[1],
     refs |-> IF d.refs = <<>> THEN <<>> ELSE d.refs[1],
     attrs |-> IF d.attrs = <<>> THEN EmptyDoc ELSE [k \in DOMAIN d.attrs[1] |-> d.attrs[1][k].v]]

\* get_obj reporting the error of get_log
get_obj_logid(s, id) ==
    IF id \in DOMAIN s.objs
    THEN Out(s, Ok(ObjectOf(s.objs[id])))
    ELSE Out(s, Err("InvalidLogID", id))

get_obj(s, id) ==
    IF id \in DOMAIN s.objs
    THEN Out(s, Ok(ObjectOf(s.objs[id])))
    ELSE Out(s, Err("InvalidObjID", id))

(***************************************************************************)
(* Inputs drawn by the callers.                                            *)
(***************************************************************************)
K_k == <<"k">>
K_j == <<"j">>
K_dotted == <<"a", ".", "b">>
Keys == {K_k, K_j, K_dotted}
V_u == <<"u">>
V_v == <<"v">>
V_w == <<"w">>
Vals == {V_v, V_w}
T_note == <<"n", "o", "t", "e">>
LogTypes == {T_note}
LogAttrs == {EmptyDoc, Put(EmptyDoc, K_k, V_u), Put(EmptyDoc, K_dotted, V_u)}
Names == {<<"n">>}
ObjTypes == {<<"t">>}
Descs == {<<"d">>, <<"e">>}
ObjMaps == {EmptyDoc, Put(EmptyDoc, S_desc, <<"d">>)}
P_obj == <<"o", "b", "j", ".", "*">>
P_log == <<"l", "o", "g", ".", "*">>
P_bad == <<"*">>
Patterns == {P_obj, P_log, P_bad}
Funcs == {"f", "g"}
LogRefs == {1, 2}
ObjRefs == {1, 2}

\* the threads of the script runtime and the frame of one that runs no
\* primitive
Threads == {1, 2}

Idle == [pc |-> "idle", op |-> "", args |-> <<>>, oid |-> 0, lid |-> 0, lids |-> <<>>,
         typ |-> <<>>, attrs |-> EmptyDoc, next |-> "", res |-> Ok(0),
         snap |-> <<>>, outer |-> <<>>]

\* the process before its init script has run: no command registered, the
\* command loop not yet entered (ret: the value the loop has broken with),
\* no line in the history (n)
ShellInit == [at |-> "init", cmds |-> EmptyDoc, ret |-> <<>>, n |-> 0]

(***************************************************************************)
(* The state machine.  STATE is one Storage behind one Mutex: a facade     *)
(* primitive holds the lock from its call to its return, so each is one    *)
(* step.  A panic inside a primitive poisons the Mutex; no later primitive *)
(* reaches the Storage until the process is started again.                 *)
(*                                                                         *)
(* last is the latest step: the start of the process ("new"), a tick of    *)
(* the clock, or a call with its arguments and result.  first_set maps     *)
(* <<log, key>> to the value of the first log.set_attr call that returned  *)
(* Ok for that key of that stored Log, and whether the key was absent then.*)
(***************************************************************************)
Cur == [ids |-> ids, logs |-> logs, objs |-> objs, handlers |-> handlers,
        fired |-> <<>>, crashed |-> crashed, now |-> now]

Call(op, args, o) ==
    /\ ~crashed
    /\ o.s.ids.logs_id <= MaxLogs + 1
    /\ o.s.ids.objs_id <= MaxObjs + 1
    /\ ids' = o.s.ids
    /\ logs' = o.s.logs
    /\ objs' = o.s.objs
    /\ handlers' = o.s.handlers
    /\ fired' = o.s.fired
    /\ crashed' = o.s.crashed
    /\ now' = now
    /\ last' = [op |-> op, args |-> args, res |-> o.res]
    /\ UNCHANGED <<lock, th, shell>>

Init ==
    /\ ids = [logs_id |-> 1, objs_id |-> 1]
    /\ logs = EmptyDoc
    /\ objs = EmptyDoc
    /\ handlers = EventHandlers_new
    /\ fired = <<>>
    /\ crashed = FALSE
    /\ now = 0
    /\ last = [op |-> "new", args |-> <<>>, res |-> Ok(0)]
    /\ first_set = EmptyDoc
    /\ lock = 0
    /\ th = [t \in Threads |-> Idle]
    /\ shell = ShellInit

\* the counter document Storage::new finds, or the one it inserts
Counter(c, name) == IF name \in DOMAIN c THEN c[name] ELSE 1

\* the process starts again: Storage::new over the persisted collections
Storage_new ==
    /\ ids' = [logs_id |-> Counter(ids, "logs_id"), objs_id |-> Counter(ids, "objs_id")]
    /\ handlers' = EventHandlers_new
    /\ fired' = <<>>
    /\ crashed' = FALSE
    /\ last' = [op |-> "new", args |-> <<>>, res |-> Ok(0)]
    /\ shell' = ShellInit
    /\ UNCHANGED <<logs, objs, now, first_set, lock, th>>

Tick ==
    /\ now < MaxTime
    /\ now' = now + 1
    /\ last' = [op |-> "tick", args |-> <<>>, res |-> Ok(0)]
    /\ UNCHANGED <<ids, logs, objs, handlers, fired, crashed, first_set, lock, th, shell>>

\* the string values of a BTreeMap<String, String> turned into Bson::String
AsDocument(map) == [k \in DOMAIN map |-> BsonString(map[k])]

F_new_log(maps) ==
    \E typ \in LogTypes, map \in maps :
        /\ Call("new_log", <<typ, map>>, create_log(Cur, typ, AsDocument(map)))
        /\ UNCHANGED first_set

new_obj(s, name, typ, map) ==
    LET c == create_obj(s, name, typ)
    IN  IF c.res.tag # "Ok" THEN c
        ELSE IF S_desc \in DOMAIN map
        THEN Then(obj_set_desc(c.s, c.res.val[1], map[S_desc]), c.res)
        ELSE c

F_new_obj(maps) ==
    \E name \in Names, typ \in ObjTypes, map \in maps :
        /\ Call("new_obj", <<name, typ, map>>, new_obj(Cur, name, typ, map))
        /\ UNCHANGED first_set

F_log_set_attr(keys, vals) ==
    \E rf \in LogRefs, key \in keys, val \in vals :
        LET o == log_set_attr(Cur, rf, key, val)
        IN  /\ Call("log.set_attr", <<rf, key, val>>, o)
            /\ first_set' =
                  IF o.res.tag = "Ok" /\ rf \in DOMAIN logs /\ <<rf, key>> \notin DOMAIN first_set
                  THEN Put(first_set, <<rf, key>>,
                           [val |-> val, absent |-> key \notin DOMAIN LogOf(logs[rf]).attrs])
                  ELSE first_set

F_log_get ==
    \E rf \in LogRefs :
        /\ Call("log.get", <<rf>>, get_log(Cur, rf))
        /\ UNCHANGED first_set

F_obj_set_desc ==
    \E rf \in ObjRefs, desc \in Descs :
        /\ Call("obj.set_desc", <<rf, desc>>, obj_set_desc(Cur, rf, desc))
        /\ UNCHANGED first_set

F_obj_add_dep(refs, targets) ==
    \E rf \in refs, obj \in targets :
        /\ Call("obj.add_dep", <<rf, obj>>, obj_add_dep(Cur, rf, obj))
        /\ UNCHANGED first_set

F_obj_add_sub(refs, targets) ==
    \E rf \in refs, obj \in targets :
        /\ Call("obj.add_sub", <<rf, obj>>, obj_add_sub(Cur, rf, obj))
        /\ UNCHANGED first_set

F_obj_add_ref(refs, targets) ==
    \E rf \in refs, obj \in targets :
        /\ Call("obj.add_ref", <<rf, obj>>, obj_add_ref(Cur, rf, obj))
        /\ UNCHANGED first_set

F_obj_set_attr(keys, vals) ==
    \E rf \in ObjRefs, key \in keys, val \in vals :
        /\ Call("obj.set_attr", <<rf, key, val>>, obj_set_attr(Cur, rf, key, val))
        /\ UNCHANGED first_set

F_obj_del_dep(refs, targets) ==
    \E rf \in refs, obj \in targets :
        /\ Call("obj.del_dep", <<rf, obj>>, obj_del_dep(Cur, rf, obj))
        /\ UNCHANGED first_set

F_obj_del_sub(refs, targets) ==
    \E rf \in refs, obj \in targets :
        /\ Call("obj.del_sub", <<rf, obj>>, obj_del_sub(Cur, rf, obj))
        /\ UNCHANGED first_set

F_obj_del_ref(refs, targets) ==
    \E rf \in refs, obj \in targets :
        /\ Call("obj.del_ref", <<rf, obj>>, obj_del_ref(Cur, rf, obj))
        /\ UNCHANGED first_set

F_obj_del_attr(keys) ==
    \E rf \in ObjRefs, key \in keys :
        /\ Call("obj.del_attr", <<rf, key>>, obj_del_attr(Cur, rf, key))
        /\ UNCHANGED first_set

F_obj_get ==
    \E rf \in ObjRefs :
        /\ Call("obj.get", <<rf>>, get_obj(Cur, rf))
        /\ UNCHANGED first_set

F_add_handler(pats, funcs) ==
    \E pat \in pats, func \in funcs :
        /\ Len(handlers) < MaxHandlers
        /\ Call("add_handler", <<pat, func>>, Storage_add_lua(Cur, pat, func))
        /\ UNCHANGED first_set

\* every primitive of the facade, the clock and the restart of the process
Next ==
    \/ Storage_new
    \/ Tick
    \/ F_new_log(LogAttrs)
    \/ F_new_obj(ObjMaps)
    \/ F_log_set_attr(Keys, Vals)
    \/ F_log_get
    \/ F_obj_set_desc
    \/ F_obj_add_dep(ObjRefs, ObjRefs)
    \/ F_obj_add_sub(ObjRefs, ObjRefs)
    \/ F_obj_add_ref(ObjRefs, ObjRefs)
    \/ F_obj_set_attr(Keys, Vals)
    \/ F_obj_del_dep(ObjRefs, ObjRefs)
    \/ F_obj_del_sub(ObjRefs, ObjRefs)
    \/ F_obj_del_ref(ObjRefs, ObjRefs)
    \/ F_obj_del_attr(Keys)
    \/ F_obj_get
    \/ F_add_handler(Patterns, Funcs)

Spec == Init /\ [][Next]_vars

(***************************************************************************)
(* Restrictions of Next to the primitives one group of properties is       *)
(* about, so that the states of that group are explored to the full depth  *)
(* of the bounds.                                                          *)
(***************************************************************************)
NextIds ==
    \/ Storage_new
    \/ F_new_log(LogAttrs)
    \/ F_new_obj(ObjMaps)
    \/ F_obj_set_desc
    \/ F_log_get
    \/ F_obj_get

SpecIds == Init /\ [][NextIds]_vars

NextLog ==
    \/ Storage_new
    \/ F_new_log({EmptyDoc, Put(EmptyDoc, K_k, V_u)})
    \/ F_log_set_attr(Keys, Vals)
    \/ F_log_get

SpecLog == Init /\ [][NextLog]_vars

NextAttr ==
    \/ Storage_new
    \/ F_new_obj({EmptyDoc})
    \/ F_obj_set_attr(Keys, Vals)
    \/ F_obj_del_attr(Keys)
    \/ F_obj_get

SpecAttr == Init /\ [][NextAttr]_vars

NextRel ==
    \/ F_new_obj({EmptyDoc})
    \/ F_obj_add_dep(ObjRefs, ObjRefs)
    \/ F_obj_add_sub(ObjRefs, {2})
    \/ F_obj_add_ref(ObjRefs, {2})
    \/ F_obj_del_dep(ObjRefs, ObjRefs)
    \/ F_obj_del_sub(ObjRefs, {2})
    \/ F_obj_del_ref(ObjRefs, {2})
    \/ F_obj_get

SpecRel == Init /\ [][NextRel]_vars

NextKey ==
    \/ F_add_handler({P_obj, P_log}, {"f"})
    \/ F_new_log({EmptyDoc})
    \/ F_new_obj({EmptyDoc})
    \/ F_log_set_attr({K_k, K_dotted}, {V_v})
    \/ F_obj_set_attr({K_k, K_dotted}, {V_v})
    \/ F_obj_del_attr({K_k, K_dotted})

SpecKey == Init /\ [][NextKey]_vars

NextGet ==
    \/ F_add_handler({P_obj, P_log}, {"f"})
    \/ F_new_log(LogAttrs)
    \/ F_new_obj(ObjMaps)
    \/ F_log_get
    \/ F_obj_get

SpecGet == Init /\ [][NextGet]_vars

NextDispatch ==
    \/ F_add_handler(Patterns, Funcs)
    \/ F_new_obj(ObjMaps)
    \/ F_new_log({EmptyDoc})
    \/ F_log_set_attr({K_k}, {V_v})

SpecDispatch == Init /\ [][NextDispatch]_vars

NextAudit ==
    \/ Storage_new
    \/ F_new_log({EmptyDoc})
    \/ F_log_set_attr({K_k}, {V_v})
    \/ F_new_obj(ObjMaps)
    \/ F_obj_set_desc
    \/ F_obj_add_dep(ObjRefs, {2})
    \/ F_obj_add_sub({1}, {2})
    \/ F_obj_add_ref({1}, {2})
    \/ F_obj_set_attr({K_k}, {V_v})
    \/ F_obj_del_dep(ObjRefs, {2})
    \/ F_obj_del_sub({1}, {2})
    \/ F_obj_del_ref({1}, {2})
    \/ F_obj_del_attr({K_k})

SpecAudit == Init /\ [][NextAudit]_vars

NextAppend ==
    \/ Storage_new
    \/ Tick
    \/ F_new_log({EmptyDoc, Put(EmptyDoc, K_k, V_u)})
    \/ F_log_set_attr({K_k, K_j}, {V_v})
    \/ F_new_obj({EmptyDoc})

SpecAppend == Init /\ [][NextAppend]_vars

NextDot ==
    \/ Storage_new
    \/ F_new_log(LogAttrs)
    \/ F_new_obj({EmptyDoc})
    \/ F_log_set_attr({K_k, K_dotted}, {V_v})
    \/ F_obj_set_attr({K_k, K_dotted}, {V_v})
    \/ F_log_get

SpecDot == Init /\ [][NextDot]_vars

NextFail ==
    \/ Storage_new
    \/ F_add_handler({P_obj}, {"f", H_fail})
    \/ F_new_obj(ObjMaps)
    \/ F_log_set_attr({K_k}, {V_v})

SpecFail == Init /\ [][NextFail]_vars

(***************************************************************************)
(* The primitives step by step.  Several threads of the script runtime     *)
(* call primitives; a primitive locks STATE, makes its store calls one at  *)
(* a time and returns, which drops the guard.  lock is the thread holding  *)
(* the Mutex (0: none).  th[t] is the frame of thread t: the primitive it  *)
(* runs and its arguments, its position pc, the ids it has been given      *)
(* (oid, lid, lids), the Log it is about to create (typ, attrs), where it  *)
(* goes after the dispatch of that Log (next), its result (res), the       *)
(* Storage as it was when the lock was taken (snap), and, for a primitive  *)
(* called by a handler, the frame of the primitive whose dispatch invoked  *)
(* the handler (outer).                                                    *)
(***************************************************************************)
CurF == [Cur EXCEPT !.fired = fired]

\* Mutex::lock returns when no thread holds the lock
CanLock_unguarded(t) == TRUE

CanLock(t) == lock = 0

\* the first store call of a primitive
Entry(op) ==
    CASE op = "new_obj" -> "obj_alloc"
      [] op = "new_log" -> "log_alloc"
      [] op = "obj.set_attr" -> "attr_update"
      [] op = "log.set_attr" -> "log_update"

\* one step of thread t, leaving the Storage as s and the frame as fr; a
\* panic unwinds the thread with the Mutex poisoned
StepTo(t, s, fr) ==
    /\ ids' = s.ids
    /\ logs' = s.logs
    /\ objs' = s.objs
    /\ fired' = s.fired
    /\ crashed' = s.crashed
    /\ th' = [th EXCEPT ![t] = fr]
    /\ last' = IF s.crashed THEN [op |-> th[t].op, args |-> th[t].args, res |-> Panicked] ELSE last
    /\ UNCHANGED <<handlers, now, first_set, lock, shell>>

Crash(s) == [s EXCEPT !.crashed = TRUE]

\* a script calls a primitive
T_call(t, calls) ==
    /\ ~crashed
    /\ th[t].pc = "idle"
    /\ \E c \in calls :
          th' = [th EXCEPT ![t] = [Idle EXCEPT !.pc = "lock", !.op = c.op, !.args = c.args]]
    /\ UNCHANGED <<ids, logs, objs, handlers, fired, crashed, now, last, first_set, lock, shell>>

\* STATE.0.lock().unwrap()
T_lock(t) ==
    /\ ~crashed
    /\ th[t].pc = "lock"
    /\ CanLock(t)
    /\ lock' = t
    /\ fired' = IF th[t].outer = <<>> THEN <<>> ELSE fired
    /\ th' = [th EXCEPT ![t] = [th[t] EXCEPT !.pc = Entry(th[t].op), !.snap = <<Cur>>]]
    /\ UNCHANGED <<ids, logs, objs, handlers, crashed, now, last, first_set, shell>>

\* lock() in the thread that holds the Mutex does not return: it blocks for
\* ever (no step) or panics (this step)
T_relock(t) ==
    /\ ~crashed
    /\ th[t].pc = "lock"
    /\ lock = t
    /\ StepTo(t, Crash(CurF), th[t])

\* create_obj: find_one_and_update of the objs_id counter
T_obj_alloc(t) ==
    /\ ~crashed
    /\ th[t].pc = "obj_alloc"
    /\ ids.objs_id <= MaxObjs
    /\ StepTo(t, [CurF EXCEPT !.ids.objs_id = @ + 1],
              [th[t] EXCEPT !.pc = "obj_insert", !.oid = ids.objs_id])

\* create_obj: insert_one, then create_log("obj.create", {id})
T_obj_insert(t) ==
    /\ ~crashed
    /\ th[t].pc = "obj_insert"
    /\ LET f == th[t]
       IN  IF f.oid \in DOMAIN objs
           THEN StepTo(t, Crash(CurF), f)
           ELSE StepTo(t, [CurF EXCEPT !.objs = Put(@, f.oid, NewObjDoc(f.args[1], f.args[2]))],
                       [f EXCEPT !.pc = "log_alloc",
                                 !.typ = T_obj_create,
                                 !.attrs = Put(EmptyDoc, S_id, Int32(f.oid)),
                                 !.next = IF S_desc \in DOMAIN f.args[3] THEN "desc_update" ELSE "return",
                                 !.res = Ok(f.oid)])

\* new_obj: obj_set_desc of the Object just created
T_desc_update(t) ==
    /\ ~crashed
    /\ th[t].pc = "desc_update"
    /\ LET f    == th[t]
           desc == f.args[3][S_desc]
           base == Put(Put(EmptyDoc, S_id, Int32(f.oid)), S_new, BsonString(desc))
       IN  IF f.oid \notin DOMAIN objs
           THEN StepTo(t, Crash(CurF), f)
           ELSE StepTo(t, [CurF EXCEPT !.objs[f.oid].desc = <<desc>>],
                       [f EXCEPT !.pc = "log_alloc",
                                 !.typ = T_obj_set_desc,
                                 !.attrs = IF objs[f.oid].desc # <<>>
                                           THEN Put(base, S_old, BsonString(objs[f.oid].desc[1]))
                                           ELSE base,
                                 !.next = "return"])

\* obj_set_attr up to its create_log
T_attr_update(t) ==
    /\ ~crashed
    /\ th[t].pc = "attr_update"
    /\ LET f    == th[t]
           id   == f.args[1]
           key  == f.args[2]
           val  == f.args[3]
           base == Put(Put(Put(EmptyDoc, S_key, BsonString(key)), S_id, Int32(id)),
                       S_new, BsonString(val))
           s1   == [CurF EXCEPT !.objs[id].attrs = SetIn(@, key, BsonString(val))]
       IN  IF Contains(key, DOT)
           THEN StepTo(t, CurF, [f EXCEPT !.pc = "return", !.res = Err("InvalidKey", key)])
           ELSE IF id \notin DOMAIN objs
           THEN StepTo(t, Crash(CurF), f)
           ELSE IF objs[id].attrs # <<>> /\ key \notin DOMAIN objs[id].attrs[1]
           THEN StepTo(t, Crash(s1), f)
           ELSE StepTo(t, s1,
                       [f EXCEPT !.pc = "log_alloc",
                                 !.typ = T_obj_set_attr,
                                 !.attrs = IF objs[id].attrs = <<>> THEN base
                                           ELSE Put(base, S_old, objs[id].attrs[1][key]),
                                 !.next = "return"])

\* log_set_attr up to its create_log
T_log_update(t) ==
    /\ ~crashed
    /\ th[t].pc = "log_update"
    /\ LET f   == th[t]
           id  == f.args[1]
           key == f.args[2]
           val == f.args[3]
           hit == /\ id \in DOMAIN logs
                  /\ (logs[id].attrs = <<>> \/ key \notin DOMAIN logs[id].attrs[1])
       IN  IF Contains(key, DOT)
           THEN StepTo(t, CurF, [f EXCEPT !.pc = "return", !.res = Err("InvalidKey", key)])
           ELSE StepTo(t, IF hit THEN [CurF EXCEPT !.logs[id].attrs = SetIn(@, key, BsonString(val))]
                                 ELSE CurF,
                       [f EXCEPT !.pc = "log_alloc",
                                 !.typ = T_log_set_attr,
                                 !.attrs = Put(Put(EmptyDoc, S_id, Int32(id)),
                                               S_attr, BsonString(AttrPath(key))),
                                 !.next = "return"])

\* create_log: find_one_and_update of the logs_id counter
T_log_alloc(t) ==
    /\ ~crashed
    /\ th[t].pc = "log_alloc"
    /\ ids.logs_id <= MaxLogs
    /\ LET f == th[t]
           g == IF f.op = "new_log"
                THEN [f EXCEPT !.typ = f.args[1], !.attrs = AsDocument(f.args[2]),
                               !.next = "return", !.res = Ok(ids.logs_id)]
                ELSE f
       IN  StepTo(t, [CurF EXCEPT !.ids.logs_id = @ + 1],
                  [g EXCEPT !.pc = "log_insert", !.lid = ids.logs_id, !.lids = Append(@, ids.logs_id)])

\* create_log: insert_one of the Log document
T_log_insert(t) ==
    /\ ~crashed
    /\ th[t].pc = "log_insert"
    /\ LET f == th[t]
           d == [type |-> f.typ, time |-> now,
                 attrs |-> IF Cardinality(DOMAIN f.attrs) > 0 THEN <<f.attrs>> ELSE <<>>]
       IN  IF f.lid \in DOMAIN logs
           THEN StepTo(t, Crash(CurF), f)
           ELSE StepTo(t, [CurF EXCEPT !.logs = Put(@, f.lid, d)], [f EXCEPT !.pc = "dispatch"])

\* the Log create_log hands to the handlers: the one get_log reads back
ReadBack_input(s, id, typ, attrs) ==
    Out(s, Ok([typ |-> typ, time |-> s.now, attrs |-> attrs]))

ReadBack(s, id, typ, attrs) == get_log(s, id)

\* the first invocation of a handler that calls a primitive, 0 if none
FirstMut(inv) ==
    IF \E i \in 1..Len(inv) : inv[i].f = H_mut
    THEN CHOOSE i \in 1..Len(inv) : inv[i].f = H_mut /\ \A j \in 1..(i - 1) : inv[j].f # H_mut
    ELSE 0

\* create_log: get_log(id)?, handlers.handle(&log).  A handler that calls
\* log.set_attr on its Log enters the primitive in this thread, inside the
\* dispatch.
T_dispatch(t) ==
    /\ ~crashed
    /\ th[t].pc = "dispatch"
    /\ LET f   == th[t]
           g   == ReadBack(CurF, f.lid, f.typ, f.attrs)
           inv == EventHandlers_handle(handlers, g.res.val[1])
           m   == FirstMut(inv)
       IN  IF g.res.tag # "Ok"
           THEN StepTo(t, CurF, [f EXCEPT !.pc = "return", !.res = g.res])
           ELSE IF m > 0
           THEN StepTo(t, [CurF EXCEPT !.fired = @ \o SubSeq(inv, 1, m)],
                       [Idle EXCEPT !.pc = "lock", !.op = "log.set_attr",
                                    !.args = <<f.lid, K_k, V_v>>, !.outer = <<f>>])
           ELSE IF HandleFailed(inv)
           THEN StepTo(t, Crash([CurF EXCEPT !.fired = @ \o inv]), f)
           ELSE StepTo(t, [CurF EXCEPT !.fired = @ \o inv], [f EXCEPT !.pc = f.next])

\* the primitive returns and its guard is dropped; a primitive called by a
\* handler returns into the dispatch that invoked the handler
T_return(t) ==
    /\ ~crashed
    /\ th[t].pc = "return"
    /\ th' = [th EXCEPT ![t] = IF th[t].outer = <<>> THEN Idle
                               ELSE [th[t].outer[1] EXCEPT !.pc = th[t].outer[1].next]]
    /\ lock' = IF lock = t THEN 0 ELSE lock
    /\ last' = [op |-> th[t].op, args |-> th[t].args, res |-> th[t].res]
    /\ UNCHANGED <<ids, logs, objs, handlers, fired, crashed, now, first_set, shell>>

\* add_handler: one step under the lock
T_add_handler(pats, funcs) ==
    /\ lock = 0
    /\ F_add_handler(pats, funcs)

P_all == <<".", "*">>

\* the calls the threads make
Calls ==
    {[op |-> "new_obj", args |-> <<<<"n">>, <<"t">>, map>>] : map \in ObjMaps}
    \cup {[op |-> "new_log", args |-> <<T_note, EmptyDoc>>]}
    \cup {[op |-> "obj.set_attr", args |-> <<1, K_k, V_v>>]}
    \cup {[op |-> "log.set_attr", args |-> <<1, K_k, V_v>>]}

NextSteps ==
    \/ T_add_handler({P_obj, P_all}, {"f"})
    \/ \E t \in Threads :
          \/ T_call(t, Calls)
          \/ T_lock(t)
          \/ T_obj_alloc(t)
          \/ T_obj_insert(t)
          \/ T_desc_update(t)
          \/ T_attr_update(t)
          \/ T_log_update(t)
          \/ T_log_alloc(t)
          \/ T_log_insert(t)
          \/ T_dispatch(t)
          \/ T_return(t)

SpecSteps == Init /\ [][NextSteps]_vars

NextNested ==
    \/ T_add_handler({P_obj}, {"f", H_mut})
    \/ \E t \in Threads :
          \/ T_call(t, {[op |-> "new_obj", args |-> <<<<"n">>, <<"t">>, EmptyDoc>>],
                        [op |-> "log.set_attr", args |-> <<1, K_k, V_v>>]})
          \/ T_lock(t)
          \/ T_relock(t)
          \/ T_obj_alloc(t)
          \/ T_obj_insert(t)
          \/ T_log_update(t)
          \/ T_log_alloc(t)
          \/ T_log_insert(t)
          \/ T_dispatch(t)
          \/ T_return(t)

SpecNested == Init /\ [][NextNested]_vars

(***************************************************************************)
(* The command shell.  shell.at is where main is: in its init script       *)
(* ("init"), in the loop of cmd_repl ("cmd"), in the scripting REPL        *)
(* ("repl"), returned ("exit") or unwound by a panic ("panic").            *)
(* shell.cmds maps the name of a registered command to its handler.  A     *)
(* line is a sequence of characters.                                       *)
(***************************************************************************)
IsSpace(c) == c = " "

RECURSIVE TrimStart(_)
TrimStart(l) == IF l # <<>> /\ IsSpace(Head(l)) THEN TrimStart(Tail(l)) ELSE l

RECURSIVE TrimEnd(_)
TrimEnd(l) == IF l # <<>> /\ IsSpace(l[Len(l)]) THEN TrimEnd(SubSeq(l, 1, Len(l) - 1)) ELSE l

\* str::trim
Trim(l) == TrimEnd(TrimStart(l))

\* str::split_ascii_whitespace
RECURSIVE Words(_)
Words(l) ==
    LET t == TrimStart(l)
    IN  IF t = <<>> THEN <<>>
        ELSE LET k == IF \E i \in 1..Len(t) : IsSpace(t[i])
                      THEN CHOOSE i \in 1..Len(t) : IsSpace(t[i]) /\ \A j \in 1..(i - 1) : ~IsSpace(t[j])
                      ELSE Len(t) + 1
             IN  <<SubSeq(t, 1, k - 1)>> \o Words(SubSeq(t, k, Len(t)))

\* get_matches_from_safe_borrow of "cmd" and the words, every registered
\* command taking no argument: no word gives matches with no subcommand, the
\* name of a registered command alone gives that subcommand, anything else
\* is an error of the parser
Parse(cmds, words) ==
    IF words = <<>> THEN [tag |-> "Ok", name |-> <<>>]
    ELSE IF Len(words) = 1 /\ words[1] \in DOMAIN cmds THEN [tag |-> "Ok", name |-> words[1]]
    ELSE [tag |-> "Err", name |-> <<>>]

\* the handlers a script registers: H_mk calls new_obj and returns, H_bad
\* returns an error
H_mk == "mk"
H_bad == "bad"

CommandHandler_call(h, s) ==
    IF h = H_bad THEN Out(s, Err("Script", 0))
    ELSE LET o == new_obj(s, <<"n">>, <<"t">>, EmptyDoc)
         IN  IF o.res.tag = "Panic" THEN o ELSE Out(o.s, Ok(0))

\* one turn of the loop of cmd_repl on the result rl of readline: the
\* Storage it leaves, the value it breaks with (brk, none when the loop goes
\* on), the command it has run (ran) and the lines it has added to the
\* history (add)
LoopBody(cmds, s, rl) ==
    IF rl.tag # "Ok"
    THEN [s |-> s, brk |-> <<FALSE>>, ran |-> <<>>, add |-> 0]
    ELSE LET line == Trim(rl.line)
             add  == IF line # <<>> THEN 1 ELSE 0
             m    == Parse(cmds, Words(line))
         IN  IF line = <<"r", "e", "p", "l">>
             THEN [s |-> s, brk |-> <<TRUE>>, ran |-> <<>>, add |-> add]
             ELSE IF m.tag = "Ok" /\ Len(m.name) # 0
             THEN LET o == CommandHandler_call(cmds[m.name], s)
                  IN  [s |-> o.s,
                       brk |-> IF o.res.tag = "Err" THEN <<FALSE>> ELSE <<>>,
                       ran |-> <<m.name>>, add |-> add]
             ELSE [s |-> s, brk |-> <<>>, ran |-> <<>>, add |-> add]

\* main after cmd_repl has returned ret
main_after_always(ret) == "repl"

main_after(ret) == IF ret THEN "repl" ELSE "exit"

\* what becomes of save_history: there is no data directory and nothing is
\* saved, the file is written, or the write fails and its unwrap panics
Saves == {"none", "ok", "fail"}

\* the script calls cmd(name, usage, handler)
F_cmd(names, hs) ==
    \E name \in names, h \in hs :
        /\ ~crashed
        /\ shell.at = "init"
        /\ shell' = [shell EXCEPT !.cmds = Put(@, name, h)]
        /\ last' = [op |-> "cmd", args |-> <<name, h>>, res |-> Ok(0)]
        /\ UNCHANGED <<ids, logs, objs, handlers, fired, crashed, now, first_set, lock, th>>

\* main: run_user has run the init script, with or without an error
main_run_user ==
    \E ok \in BOOLEAN :
        /\ ~crashed
        /\ shell.at = "init"
        /\ shell' = [shell EXCEPT !.at = IF ok THEN "cmd" ELSE "exit"]
        /\ last' = [op |-> "run_user", args |-> <<ok>>, res |-> Ok(0)]
        /\ UNCHANGED <<ids, logs, objs, handlers, fired, crashed, now, first_set, lock, th>>

\* one turn of the loop of cmd_repl and, when the loop breaks, the rest of
\* cmd_repl and of main
cmd_repl(inputs) ==
    \E rl \in inputs, sv \in Saves :
        LET b == LoopBody(shell.cmds, Cur, rl)
        IN  /\ ~crashed
            /\ shell.at = "cmd"
            /\ shell.n + b.add <= MaxLines
            /\ b.s.ids.logs_id <= MaxLogs + 1
            /\ b.s.ids.objs_id <= MaxObjs + 1
            /\ (b.brk = <<>> \/ b.s.crashed) => sv = "ok"
            /\ ids' = b.s.ids
            /\ logs' = b.s.logs
            /\ objs' = b.s.objs
            /\ fired' = b.s.fired
            /\ crashed' = (b.s.crashed \/ (b.brk # <<>> /\ sv = "fail"))
            /\ shell' = [shell EXCEPT
                            !.n = @ + b.add,
                            !.ret = IF b.s.crashed THEN @ ELSE b.brk,
                            !.at = IF b.s.crashed THEN "panic"
                                   ELSE IF b.brk = <<>> THEN "cmd"
                                   ELSE IF sv = "fail" THEN "panic"
                                   ELSE main_after(b.brk[1])]
            /\ last' = [op |-> "cmd_repl", args |-> <<rl>>, res |-> Ok(b.ran)]
            /\ UNCHANGED <<handlers, now, first_set, lock, th>>

L_repl == <<"r", "e", "p", "l">>
L_repl_sp == <<" ", "r", "e", "p", "l", " ">>
L_repl_x == <<"r", "e", "p", "l", " ", "x">>
L_empty == <<>>
L_blank == <<" ", " ">>
L_mk == <<"m", "k">>
L_mk_x == <<"m", "k", " ", "x">>
L_bad == <<" ", "b", "a", "d">>
L_no == <<"n", "o">>
Lines == {L_repl, L_repl_sp, L_repl_x, L_empty, L_blank, L_mk, L_mk_x, L_bad, L_no}

ReadResults ==
    {[tag |-> "Ok", line |-> l] : l \in Lines}
    \cup {[tag |-> "Eof", line |-> <<>>], [tag |-> "Err", line |-> <<>>]}

NextShell ==
    \/ F_cmd({L_mk, <<"b", "a", "d">>}, {H_mk, H_bad})
    \/ main_run_user
    \/ cmd_repl(ReadResults)

SpecShell == Init /\ [][NextShell]_vars

(***************************************************************************)
(* Properties.  Step(op) holds of a step that is a call of primitive op.   *)
(***************************************************************************)
Step(op) == last'.op = op
Returned(op) == last'.op = op /\ last'.res.tag = "Ok"
NewLogs == (DOMAIN logs') \ (DOMAIN logs)
NewObjs == (DOMAIN objs') \ (DOMAIN objs)
HasDot(k) == \E i \in DOMAIN k : k[i] = "."
StartsWith(s, p) == Len(s) >= Len(p) /\ SubSeq(s, 1, Len(p)) = p

AttrsOf(d) == IF d.attrs = <<>> THEN EmptyDoc ELSE d.attrs[1]

\* the type of the audit Log of a primitive that makes one mutation
AuditType(op) ==
    CASE op = "new_obj" -> T_obj_create
      [] op = "log.set_attr" -> T_log_set_attr
      [] op = "obj.set_desc" -> T_obj_set_desc
      [] op = "obj.add_dep" -> T_obj_add_dep
      [] op = "obj.add_sub" -> T_obj_add_sub
      [] op = "obj.add_ref" -> T_obj_add_ref
      [] op = "obj.del_dep" -> T_obj_del_dep
      [] op = "obj.del_sub" -> T_obj_del_sub
      [] op = "obj.del_ref" -> T_obj_del_ref
      [] op = "obj.set_attr" -> T_obj_set_attr
      [] op = "obj.del_attr" -> T_obj_del_attr
      [] OTHER -> <<>>

StoredChanged == objs' # objs \/ \E id \in DOMAIN logs : logs'[id] # logs[id]

\* C2 (as claimed): every call that changed a stored Object or Log has
\* produced exactly one new Log, whose type names the operation and whose
\* attrs carry the id of the target.
C2_OneAuditLogPerMutation ==
    [][StoredChanged =>
          /\ Cardinality(NewLogs) = 1
          /\ \A id \in NewLogs :
                /\ logs'[id].type = AuditType(last'.op)
                /\ logs'[id].attrs # <<>>
                /\ S_id \in DOMAIN logs'[id].attrs[1]
                /\ logs'[id].attrs[1][S_id] =
                      Int32(IF last'.op = "new_obj" THEN last'.res.val[1] ELSE last'.args[1])]_vars

\* the one Log a step has created is of type typ with the attrs doc
OneNewLog(typ, doc) ==
    /\ NewLogs = {ids.logs_id}
    /\ logs'[ids.logs_id].type = typ
    /\ logs'[ids.logs_id].attrs = <<doc>>

\* C4 (as claimed): obj.set_attr on an existing Object with a key without
\* '.' succeeds, sets attrs[key] = val and leaves the other keys and fields,
\* and emits one obj.set_attr Log {key, id, new}, with old exactly when the
\* key was present before.
C4_ObjSetAttr ==
    [][(/\ Step("obj.set_attr")
        /\ last'.args[1] \in DOMAIN objs
        /\ ~HasDot(last'.args[2])) =>
          LET id  == last'.args[1]
              key == last'.args[2]
              val == last'.args[3]
              old == AttrsOf(objs[id])
              base == [k \in {S_key, S_id, S_new} |->
                         IF k = S_key THEN BsonString(key)
                         ELSE IF k = S_id THEN Int32(id) ELSE BsonString(val)]
          IN  /\ last'.res = Ok(0)
              /\ objs' = [objs EXCEPT ![id].attrs = <<Put(old, key, BsonString(val))>>]
              /\ OneNewLog(T_obj_set_attr,
                           IF key \in DOMAIN old THEN Put(base, S_old, old[key]) ELSE base)]_vars

\* C6 (as claimed): obj.del_attr on an existing Object with a key without
\* '.': when the key is not in attrs it succeeds, leaves the Object as get
\* shows it unchanged and emits no Log; when the key is in attrs it removes
\* it, leaves the other keys and emits one obj.del_attr Log {id, key, old}.
C6_ObjDelAttr ==
    [][(/\ Step("obj.del_attr")
        /\ last'.args[1] \in DOMAIN objs
        /\ ~HasDot(last'.args[2])) =>
          LET id  == last'.args[1]
              key == last'.args[2]
              old == AttrsOf(objs[id])
          IN  /\ last'.res = Ok(0)
              /\ IF key \in DOMAIN old
                 THEN /\ objs' = [objs EXCEPT ![id].attrs = <<Remove(old, key)>>]
                      /\ OneNewLog(T_obj_del_attr,
                                   [k \in {S_id, S_key, S_old} |->
                                      IF k = S_id THEN Int32(id)
                                      ELSE IF k = S_key THEN BsonString(key) ELSE old[key]])
                 ELSE /\ DOMAIN objs' = DOMAIN objs
                      /\ \A o \in DOMAIN objs : ObjectOf(objs'[o]) = ObjectOf(objs[o])
                      /\ logs' = logs]_vars

\* C3 (as claimed): log.set_attr(L, k, v1) and later log.set_attr(L, k, v2)
\* on a stored Log L, k without '.': the later call returns success, changes
\* nothing in L, leaves L.attrs[k] = v1, and creates one log.set_attr Log
\* with attrs {id: L, attr: "attrs.k"}.
C3_FirstWriteWins ==
    [][(/\ Step("log.set_attr")
        /\ <<last'.args[1], last'.args[2]>> \in DOMAIN first_set) =>
          LET L == last'.args[1]
              k == last'.args[2]
          IN  /\ last'.res = Ok(0)
              /\ logs'[L] = logs[L]
              /\ LogOf(logs'[L]).attrs[k] = first_set[<<L, k>>].val
              /\ OneNewLog(T_log_set_attr,
                           [a \in {S_id, S_attr} |->
                              IF a = S_id THEN Int32(L) ELSE BsonString(S_attrs_dot \o k)])]_vars

\* C3 (amended): as C3, but L.attrs[k] = v1 only when L did not hold k before
\* the first call; a key L already held keeps the value it had.
C3_FirstWriteWinsIfAbsent ==
    [][(/\ Step("log.set_attr")
        /\ <<last'.args[1], last'.args[2]>> \in DOMAIN first_set) =>
          LET L == last'.args[1]
              k == last'.args[2]
          IN  /\ last'.res = Ok(0)
              /\ logs'[L] = logs[L]
              /\ first_set[<<L, k>>].absent =>
                    LogOf(logs'[L]).attrs[k] = first_set[<<L, k>>].val
              /\ OneNewLog(T_log_set_attr,
                           [a \in {S_id, S_attr} |->
                              IF a = S_id THEN Int32(L) ELSE BsonString(S_attrs_dot \o k)])]_vars

\* a second log.set_attr, with another value, of a key the first call wrote
C3_Witness ==
    /\ last.op = "log.set_attr"
    /\ last.res = Ok(0)
    /\ <<last.args[1], last.args[2]>> \in DOMAIN first_set
    /\ first_set[<<last.args[1], last.args[2]>>].absent
    /\ first_set[<<last.args[1], last.args[2]>>].val # last.args[3]
    /\ LogOf(logs[last.args[1]]).attrs[last.args[2]] = first_set[<<last.args[1], last.args[2]>>].val

Count(a, x) == Cardinality({i \in 1..Len(a) : a[i] = x})

RelOps == {"obj.add_dep", "obj.add_sub", "obj.add_ref", "obj.del_dep", "obj.del_sub", "obj.del_ref"}
AddOps == {"obj.add_dep", "obj.add_sub", "obj.add_ref"}

\* the relation of the Object value o a relation primitive works on
RelOf(op, o) ==
    CASE op \in {"obj.add_dep", "obj.del_dep"} -> o.deps
      [] op \in {"obj.add_sub", "obj.del_sub"} -> o.subs
      [] op \in {"obj.add_ref", "obj.del_ref"} -> o.refs

RelKey(op) ==
    CASE op \in {"obj.add_dep", "obj.del_dep"} -> S_dep
      [] op \in {"obj.add_sub", "obj.del_sub"} -> S_sub
      [] op \in {"obj.add_ref", "obj.del_ref"} -> S_ref

\* C5: on an existing Object A, add_dep(A, B) leaves B in get(A).deps exactly
\* once, also when B was a member before; del_dep(A, B) leaves B out of it,
\* also when B was no member; every such call returns success and emits one
\* Log of its type with {id: A, dep: B}; the other members and the other two
\* relations stay.  The same for sub and ref.
C5_Relations ==
    [][(\E op \in RelOps : Step(op)) /\ last'.args[1] \in DOMAIN objs =>
          LET op  == last'.op
              A   == last'.args[1]
              B   == last'.args[2]
              pre == ObjectOf(objs[A])
              post == ObjectOf(objs'[A])
          IN  /\ last'.res = Ok(0)
              /\ Count(RelOf(op, post), B) = IF op \in AddOps THEN 1 ELSE 0
              /\ \A x \in ObjRefs \ {B} : Count(RelOf(op, post), x) = Count(RelOf(op, pre), x)
              /\ \A other \in RelOps : RelKey(other) # RelKey(op) => RelOf(other, post) = RelOf(other, pre)
              /\ OneNewLog(AuditType(op),
                           [a \in {S_id, RelKey(op)} |-> IF a = S_id THEN Int32(A) ELSE Int32(B)])]_vars

\* add_dep of a member that is present already, audited a second time
C5_Witness ==
    /\ last.op = "obj.add_dep"
    /\ last.res = Ok(0)
    /\ last.args[1] \in DOMAIN objs
    /\ Count(ObjectOf(objs[last.args[1]]).deps, last.args[2]) = 1
    /\ \E i, j \in DOMAIN logs :
          i < j /\ logs[i].type = T_obj_add_dep /\ logs[j].type = T_obj_add_dep
                /\ logs[i].attrs = logs[j].attrs

\* C7: log.set_attr, obj.set_attr and obj.del_attr with a key that contains
\* '.' return InvalidKey(key) and leave the Logs, the Objects, both counters
\* and the handlers as they were; no handler is invoked.
C7_DottedKeyRejected ==
    [][(/\ \E op \in {"log.set_attr", "obj.set_attr", "obj.del_attr"} : Step(op)
        /\ HasDot(last'.args[2])) =>
          /\ last'.res = Err("InvalidKey", last'.args[2])
          /\ UNCHANGED <<ids, logs, objs, handlers, crashed>>
          /\ fired' = <<>>]_vars

\* a dotted key given for a stored Log while a handler for log.* is registered
C7_Witness ==
    /\ last.op = "log.set_attr"
    /\ last.args[1] \in DOMAIN logs
    /\ last.res = Err("InvalidKey", K_dotted)
    /\ \E i \in 1..Len(handlers) : handlers[i].pat = P_log

\* C8: log.get of an id with no stored Log returns InvalidLogID(id), obj.get
\* of an id with no stored Object returns InvalidObjID(id), a get of a stored
\* id returns the value; in every case the Logs, the Objects, the counters
\* and the handlers are unchanged and no handler is invoked.
C8_GetHasNoEffect ==
    [][(Step("log.get") \/ Step("obj.get")) =>
          /\ Step("log.get") =>
                IF last'.args[1] \in DOMAIN logs
                THEN last'.res = Ok(LogOf(logs[last'.args[1]]))
                ELSE last'.res = Err("InvalidLogID", last'.args[1])
          /\ Step("obj.get") =>
                IF last'.args[1] \in DOMAIN objs
                THEN last'.res = Ok(ObjectOf(objs[last'.args[1]]))
                ELSE last'.res = Err("InvalidObjID", last'.args[1])
          /\ UNCHANGED <<ids, logs, objs, handlers, crashed>>
          /\ fired' = <<>>]_vars

\* obj.get of an id that is not stored, beside a stored Object and a handler
C8_Witness ==
    /\ last.op = "obj.get"
    /\ last.res = Err("InvalidObjID", 2)
    /\ 1 \in DOMAIN objs
    /\ Len(handlers) > 0

\* C9 (as claimed): obj.set_desc on an id with no Object returns
\* InvalidObjID(id) and creates no Object and no Log; no call of any
\* primitive ends in a panic.
C9_SetDescTypedError ==
    [][/\ (Step("obj.set_desc") /\ last'.args[1] \notin DOMAIN objs) =>
             /\ last'.res = Err("InvalidObjID", last'.args[1])
             /\ UNCHANGED <<logs, objs>>
       /\ last'.res.tag # "Panic"
       /\ ~crashed']_vars

\* C10: with one handler registered, for the pattern obj.*, a new_obj call
\* invokes it once for the obj.create Log, every Log it is invoked with has a
\* type that starts with "obj.", and a log.set_attr call, whose Log is of
\* type log.set_attr, does not invoke it.
C10_ObjHandlerFires ==
    [][(Len(handlers) = 1 /\ handlers[1].pat = P_obj) =>
          /\ Returned("new_obj") =>
                /\ Cardinality({i \in 1..Len(fired') : fired'[i].log.typ = T_obj_create}) = 1
                /\ \A i \in 1..Len(fired') : \E id \in NewLogs : fired'[i].log = LogOf(logs'[id])
                /\ \A i \in 1..Len(fired') :
                      /\ fired'[i].f = handlers[1].f
                      /\ StartsWith(fired'[i].log.typ, <<"o", "b", "j", ".">>)
          /\ Returned("log.set_attr") =>
                /\ fired' = <<>>
                /\ \A id \in NewLogs : logs'[id].type = T_log_set_attr]_vars

\* new_obj has invoked the one handler, registered for obj.*, once
C10_Witness ==
    /\ last.op = "new_obj"
    /\ last.res.tag = "Ok"
    /\ Len(handlers) = 1
    /\ handlers[1].pat = P_obj
    /\ Len(fired) = 1
    /\ fired[1].log.typ = T_obj_create

\* the invocations the registrations hs owe the stored Log id, in order
InvocationsFor(hs, id) ==
    LET l   == LogOf(logs'[id])
        sel == SelectSeq(hs, LAMBDA h : IsMatch(h.pat, l.typ))
    IN  [i \in 1..Len(sel) |-> [f |-> sel[i].f, log |-> l]]

\* the invocations owed to the Logs a step has created, in the order of
\* their creation (a step creates at most two)
Owed ==
    (IF ids.logs_id \in NewLogs THEN InvocationsFor(handlers, ids.logs_id) ELSE <<>>)
    \o (IF ids.logs_id + 1 \in NewLogs THEN InvocationsFor(handlers, ids.logs_id + 1) ELSE <<>>)

C12_HandlerFailureIsolated ==
    [][(\E i \in 1..Len(fired') : HandlerFails(fired'[i].f)) =>
          /\ fired' = Owed
          /\ NewLogs # {}
          /\ objs' # objs
          /\ last'.res.tag = "Ok"
          /\ ~crashed']_vars

\* the Object a fresh document of the given name and type reads back as
FreshObject(name, typ) ==
    [name |-> name, typ |-> typ, desc |-> <<>>,
     deps |-> <<>>, subs |-> <<>>, refs |-> <<>>, attrs |-> EmptyDoc]

\* C13: get_obj of the id create_obj(n, t) has returned gives an Object of
\* name n and type t with no desc, no deps, subs or refs and no attrs (a
\* new_obj call without a desc is one create_obj call; with a desc the
\* Object differs from that in the desc alone).
C13_CreatedObjectReadsBack ==
    [][Returned("new_obj") =>
          LET id   == last'.res.val[1]
              name == last'.args[1]
              typ  == last'.args[2]
              map  == last'.args[3]
          IN  get_obj(Cur', id).res =
                 Ok(IF S_desc \in DOMAIN map
                    THEN [FreshObject(name, typ) EXCEPT !.desc = <<map[S_desc]>>]
                    ELSE FreshObject(name, typ))]_vars

\* obj.get has returned the Object of a new_obj call without a desc
C13_Witness ==
    /\ last.op = "obj.get"
    /\ last.res = Ok(FreshObject(<<"n">>, <<"t">>))
    /\ last.args[1] \in DOMAIN objs

\* the primitive of frame f as one step from the Storage it locked
AtomicOf(f) ==
    LET s == f.snap[1]
    IN  CASE f.op = "new_obj" -> new_obj(s, f.args[1], f.args[2], f.args[3])
          [] f.op = "new_log" -> create_log(s, f.args[1], AsDocument(f.args[2]))
          [] f.op = "obj.set_attr" -> obj_set_attr(s, f.args[1], f.args[2], f.args[3])
          [] f.op = "log.set_attr" -> log_set_attr(s, f.args[1], f.args[2], f.args[3])

\* thread t is between the lock and the return of a primitive
InPrimitive(t) == th[t].pc \notin {"idle", "lock"}

\* C14: with several threads calling primitives, no two are inside a
\* primitive at once, and a primitive that returns leaves the store, the
\* invocations and its result as if all its store calls had been one step
\* from the state it locked; its Logs have consecutive ids that start right
\* after the last Log of the primitives completed before it; new_obj with a
\* desc has created an obj.create Log and an obj.set_desc Log with
\* consecutive ids.
C14_PrimitivesDoNotInterleave ==
    [][/\ \A t \in Threads, u \in Threads : (InPrimitive(t)' /\ InPrimitive(u)') => t = u
       /\ \A t \in Threads :
             (th[t].pc = "return" /\ th'[t].pc = "idle") =>
                LET f == th[t]
                    a == AtomicOf(f)
                IN  /\ a.res = f.res
                    /\ a.s.ids = ids /\ a.s.logs = logs /\ a.s.objs = objs
                    /\ a.s.fired = fired
                    /\ \A i \in 1..Len(f.lids) : f.lids[i] = f.snap[1].ids.logs_id + i - 1
                    /\ f.lids # <<>> => DOMAIN f.snap[1].logs = 1..(f.lids[1] - 1)
                    /\ (f.op = "new_obj" /\ S_desc \in DOMAIN f.args[3]) =>
                          /\ Len(f.lids) = 2
                          /\ f.lids[2] = f.lids[1] + 1
                          /\ logs[f.lids[1]].type = T_obj_create
                          /\ logs[f.lids[2]].type = T_obj_set_desc]_vars

\* new_obj with a desc has returned after another primitive had completed,
\* with the other thread waiting for the lock: its two Logs are 2 and 3
C14_Witness ==
    /\ last.op = "new_obj"
    /\ S_desc \in DOMAIN last.args[3]
    /\ last.res.tag = "Ok"
    /\ lock = 0
    /\ \E t \in Threads : th[t].pc = "lock"
    /\ DOMAIN logs = {1, 2, 3}
    /\ logs[2].type = T_obj_create
    /\ logs[3].type = T_obj_set_desc

\* C15 (as claimed): a handler that calls a primitive while it is dispatched
\* is not left waiting for the lock and does not take the process down: the
\* primitive it has called can take the lock, so the outer primitive can
\* go on to its return.
C15_HandlerMutationNoDeadlock ==
    /\ \A t \in Threads : (th[t].outer # <<>> /\ th[t].pc = "lock") => ENABLED T_lock(t)
    /\ ~(crashed /\ \E t \in Threads : th[t].outer # <<>>)

\* the change of the Object a Log of frame f reports, as get_obj shows it
Visible(f) ==
    CASE f.typ = T_obj_create ->
             /\ get_obj(CurF, f.oid).res.tag = "Ok"
             /\ get_obj(CurF, f.oid).res.val[1].name = f.args[1]
      [] f.typ = T_obj_set_desc ->
             /\ get_obj(CurF, f.oid).res.tag = "Ok"
             /\ get_obj(CurF, f.oid).res.val[1].desc = <<f.args[3][S_desc]>>
      [] f.typ = T_obj_set_attr ->
             /\ get_obj(CurF, f.args[1]).res.tag = "Ok"
             /\ f.args[2] \in DOMAIN get_obj(CurF, f.args[1]).res.val[1].attrs
             /\ get_obj(CurF, f.args[1]).res.val[1].attrs[f.args[2]] = f.args[3]
      [] OTHER -> TRUE

\* C16: in the state in which the handlers are invoked for a Log, get_log of
\* its id succeeds and returns the Log every handler receives, of the type
\* given to create_log and with empty attrs when it was created with none,
\* and get_obj shows the change of the Object the Log reports.
C16_DispatchAfterPersist ==
    [][\A t \in Threads :
          (th[t].pc = "dispatch" /\ th'[t] # th[t]) =>
             LET f == th[t]
             IN  \A i \in (Len(fired) + 1)..Len(fired') :
                    /\ get_log(CurF, f.lid).res = Ok(fired'[i].log)
                    /\ fired'[i].log.typ = f.typ
                    /\ f.attrs = EmptyDoc => fired'[i].log.attrs = EmptyDoc
                    /\ Visible(f)]_vars

\* the handlers have been invoked for both Logs of a new_obj with a desc
C16_Witness ==
    \E t \in Threads :
        /\ th[t].pc = "return"
        /\ th[t].op = "new_obj"
        /\ Len(fired) >= 2
        /\ fired[1].log.typ = T_obj_create
        /\ fired[Len(fired)].log.typ = T_obj_set_desc

\* the primitives that make one mutation of one Object
ObjMutations ==
    {"obj.set_desc", "obj.add_dep", "obj.add_sub", "obj.add_ref", "obj.set_attr",
     "obj.del_dep", "obj.del_sub", "obj.del_ref", "obj.del_attr"}

\* C17: the creation of a Log is not itself logged.  With no handler
\* registered, a new_log call that returns has added exactly one Log, of the
\* type it was given; a log.set_attr call that returns has added exactly one
\* Log, of type log.set_attr; a call that makes one mutation of an Object
\* adds at most one Log, and new_obj, which creates an Object and sets its
\* desc when given one, at most one for each of the two.
C17_LogCreationNotAudited ==
    [][handlers = <<>> =>
          /\ Returned("new_log") =>
                /\ Cardinality(NewLogs) = 1
                /\ \A id \in NewLogs : logs'[id].type = last'.args[1]
          /\ Returned("log.set_attr") =>
                /\ Cardinality(NewLogs) = 1
                /\ \A id \in NewLogs : logs'[id].type = T_log_set_attr
          /\ last'.op \in ObjMutations => Cardinality(NewLogs) <= 1
          /\ Step("new_obj") =>
                Cardinality(NewLogs) <= (IF S_desc \in DOMAIN last'.args[3] THEN 2 ELSE 1)]_vars

\* log.set_attr has set a key of Log 1 and added the one Log 2
C17_Witness ==
    /\ handlers = <<>>
    /\ last.op = "log.set_attr"
    /\ last.res.tag = "Ok"
    /\ DOMAIN logs = {1, 2}
    /\ logs[1].attrs # <<>>
    /\ K_k \in DOMAIN logs[1].attrs[1]
    /\ logs[2].type = T_log_set_attr

\* C18: Logs are append-only.  A stored Log stays stored under its id with
\* its type and time; every key of its attrs keeps its value; and a step
\* that changes a stored Log is a log.set_attr call on that Log with a key
\* the Log did not hold, which adds that key with the value of the call and
\* nothing else.
C18_LogsAppendOnly ==
    [][\A id \in DOMAIN logs :
          /\ id \in DOMAIN logs'
          /\ logs'[id].type = logs[id].type
          /\ logs'[id].time = logs[id].time
          /\ \A k \in DOMAIN AttrsOf(logs[id]) :
                /\ k \in DOMAIN AttrsOf(logs'[id])
                /\ AttrsOf(logs'[id])[k] = AttrsOf(logs[id])[k]
          /\ logs'[id] # logs[id] =>
                /\ Step("log.set_attr")
                /\ last'.args[1] = id
                /\ last'.args[2] \notin DOMAIN AttrsOf(logs[id])
                /\ DOMAIN AttrsOf(logs'[id]) = DOMAIN AttrsOf(logs[id]) \cup {last'.args[2]}
                /\ AttrsOf(logs'[id])[last'.args[2]] = BsonString(last'.args[3])]_vars

\* a Log created at time 0 with a key k has been given a second key at time
\* 1: it keeps its time and its k, and the Log of the call bears time 1
C18_Witness ==
    /\ last.op = "log.set_attr"
    /\ last.args[1] = 1
    /\ last.args[2] = K_j
    /\ last.res.tag = "Ok"
    /\ now = 1
    /\ 1 \in DOMAIN logs
    /\ logs[1].time = 0
    /\ DOMAIN AttrsOf(logs[1]) = {K_k, K_j}
    /\ AttrsOf(logs[1])[K_k] = BsonString(V_u)
    /\ \E id \in DOMAIN logs : logs[id].type = T_log_set_attr /\ logs[id].time = 1

\* C19: the set of stored Objects changes only through create_obj: a step
\* that changes it is a new_obj call and adds the one id the counter held;
\* no set_desc, add_*, del_*, set_attr or del_attr call, whatever its id and
\* however it ends, adds or removes an Object; and a stored Object keeps its
\* name and its type.
C19_ObjectsOnlyCreated ==
    [][/\ DOMAIN objs' # DOMAIN objs =>
             /\ Step("new_obj")
             /\ DOMAIN objs' = DOMAIN objs \cup {ids.objs_id}
       /\ last'.op \in ObjMutations => DOMAIN objs' = DOMAIN objs
       /\ \A o \in DOMAIN objs :
             /\ o \in DOMAIN objs'
             /\ objs'[o].name = objs[o].name
             /\ objs'[o].type = objs[o].type]_vars

\* obj.add_dep on an id with no Object has returned and logged, and the one
\* stored Object is still the only one
C19_Witness ==
    /\ last.op = "obj.add_dep"
    /\ last.args[1] = 2
    /\ last.res.tag = "Ok"
    /\ DOMAIN objs = {1}
    /\ objs[1].name = <<"n">>
    /\ \E id \in DOMAIN logs : logs[id].type = T_obj_add_dep

\* the Log counter moves by n and the Object counter by m
Counters(n, m) == ids' = [logs_id |-> ids.logs_id + n, objs_id |-> ids.objs_id + m]

\* the Logs of a new_obj call: obj.create, and obj.set_desc when given a desc
LogsOfNewObj == IF S_desc \in DOMAIN last'.args[3] THEN 2 ELSE 1

\* C20 (as claimed): the allocation of an id increments the counter of its
\* sequence and returns the value after the increment, the first value
\* returned for a sequence being 1; the allocation of a Log id leaves the
\* Object counter as it is, and new_obj moves the Log counter only by its
\* audit Logs.
C20_AllocReturnsNewValue ==
    [][/\ Returned("new_log") =>
             /\ Counters(1, 0)
             /\ last'.res.val[1] = ids'.logs_id
             /\ logs = EmptyDoc => last'.res.val[1] = 1
       /\ Returned("new_obj") =>
             /\ Counters(LogsOfNewObj, 1)
             /\ last'.res.val[1] = ids'.objs_id
             /\ objs = EmptyDoc => last'.res.val[1] = 1]_vars

\* C20 (amended): the allocation of an id increments the counter of its
\* sequence and returns the value the counter held before the increment;
\* the counters start at 1, so the first value returned for a sequence is 1;
\* the allocation of a Log id leaves the Object counter as it is, and
\* new_obj moves the Log counter only by its audit Logs, whose first is the
\* obj.create Log.
C20_AllocReturnsOldValue ==
    [][/\ Returned("new_log") =>
             /\ Counters(1, 0)
             /\ last'.res.val[1] = ids.logs_id
             /\ NewLogs = {ids.logs_id}
             /\ logs = EmptyDoc => last'.res.val[1] = 1
       /\ Returned("new_obj") =>
             /\ Counters(LogsOfNewObj, 1)
             /\ last'.res.val[1] = ids.objs_id
             /\ NewObjs = {ids.objs_id}
             /\ NewLogs = ids.logs_id..(ids.logs_id + LogsOfNewObj - 1)
             /\ logs'[ids.logs_id].type = T_obj_create
             /\ objs = EmptyDoc => last'.res.val[1] = 1]_vars

\* the first new_log has returned 1 and left the Log counter at 2
C20_Witness ==
    /\ last.op = "new_log"
    /\ last.res = Ok(1)
    /\ ids = [logs_id |-> 2, objs_id |-> 1]
    /\ DOMAIN logs = {1}

\* no key of the attrs of a stored Log or Object contains '.'
NoDottedKeyStored ==
    /\ \A id \in DOMAIN logs : \A k \in DOMAIN AttrsOf(logs[id]) : ~HasDot(k)
    /\ \A id \in DOMAIN objs : \A k \in DOMAIN AttrsOf(objs[id]) : ~HasDot(k)

\* C21 (as claimed): no stored Log and no stored Object ever has an
\* attribute key that contains '.': log.set_attr and obj.set_attr store no
\* such key, and a new_log call whose attrs map has such a key is rejected
\* and stores no Log.
C21_NoDottedKeyEverStored ==
    [][/\ NoDottedKeyStored'
       /\ (Step("new_log") /\ \E k \in DOMAIN last'.args[2] : HasDot(k)) =>
             /\ last'.res.tag = "Err"
             /\ logs' = logs]_vars

\* the lines that are "repl" once the blanks around them are dropped
ReplLines == {L_repl, L_repl_sp}

\* C22: cmd_repl takes one line a turn and its loop ends in exactly these
\* cases: the line "repl" ends it with the value true and runs no command;
\* the end of the input or an error of the read ends it with false; a
\* command whose handler fails ends it with false.  A line that does not
\* parse, an empty line and a command whose handler returns leave the loop
\* running.  main starts the scripting REPL only after cmd_repl, and only
\* when that value is true.
C22_CommandLoopEnds ==
    [][/\ Step("cmd_repl") =>
             LET rl  == last'.args[1]
                 ran == last'.res.val[1]
             IN  /\ shell'.n <= shell.n + 1
                 /\ (rl.tag = "Ok" /\ rl.line \in ReplLines) =>
                       /\ shell'.ret = <<TRUE>>
                       /\ ran = <<>>
                       /\ UNCHANGED <<ids, logs, objs>>
                 /\ rl.tag \in {"Eof", "Err"} =>
                       /\ shell'.ret = <<FALSE>>
                       /\ ran = <<>>
                 /\ (ran # <<>> /\ shell.cmds[ran[1]] = H_bad) => shell'.ret = <<FALSE>>
                 /\ (ran # <<>> /\ shell.cmds[ran[1]] = H_mk) =>
                       /\ shell'.ret = <<>>
                       /\ shell'.at = "cmd"
                 /\ (rl.tag = "Ok" /\ rl.line \notin ReplLines /\ ran = <<>>) =>
                       /\ shell'.ret = <<>>
                       /\ shell'.at = "cmd"
                       /\ UNCHANGED <<ids, logs, objs>>
                 /\ shell'.ret # <<>> =>
                       \/ rl.tag = "Ok" /\ rl.line \in ReplLines
                       \/ rl.tag \in {"Eof", "Err"}
                       \/ ran # <<>> /\ shell.cmds[ran[1]] = H_bad
       /\ shell'.ret # shell.ret => (Step("cmd_repl") /\ shell.at = "cmd" /\ shell.ret = <<>>)
       /\ shell'.at = "repl" => shell'.ret = <<TRUE>>
       /\ (shell'.at = "repl" /\ shell.at # "repl") => (Step("cmd_repl") /\ shell.at = "cmd")]_vars

\* after a command has created an Object, the line " repl " has ended the
\* loop with true and main has started the scripting REPL
C22_Witness ==
    /\ shell.at = "repl"
    /\ shell.ret = <<TRUE>>
    /\ last.op = "cmd_repl"
    /\ last.args[1].line = L_repl_sp
    /\ 1 \in DOMAIN objs
    /\ shell.n = 2

====
